---- MODULE Spec2Model ----
(***************************************************************************)
(* LoggerClient (lib/Logger/src/LoggerClient.h) on top of PhoenixSocket    *)
(* (lib/ESPPhoenixSocket/src/ESPPhoenixSocket.h): the channel join         *)
(* handshake, ref issuance, reply routing and the clock estimate.          *)
(*                                                                         *)
(* Arithmetic.  millis(), the ref counter and the unix estimate are        *)
(* uint32_t in the source.  TLC's integers are 32-bit signed, so 2^32 is   *)
(* not representable; every unsigned 32-bit quantity is kept modulo UMod = *)
(* 2^30, the largest power of two for which a - b + UMod never leaves      *)
(* TLC's range.  All program constants (5000, 1000, 30000, 86400000) keep  *)
(* their source values and stay far below UMod, so the wrap of a counter   *)
(* happens exactly as in the source, only at 2^30 instead of 2^32.         *)
(***************************************************************************)
EXTENDS Integers, Sequences, FiniteSets, TLC

\* Modulus of the unsigned counters (stand-in for 2^32, see above).
UMod == 2^30

\* Largest integer TLC can hold; the physical clock stops there.
ClockLimit == (UMod - 1) + UMod

\* LoggerClient.h:22  constexpr const uint16_t REJOIN_INTERVAL = 5000;
REJOIN_INTERVAL == 5000

\* Logger.h:28  #define ONE_DAY 86400000UL
ONE_DAY == 86400000

\* LoggerClient.h:111  (millis() - lastSyncAttempt) > 1000
SYNC_INTERVAL == 1000

\* ESPPhoenixSocket.h:69  millis() % 30000 == 0
HEARTBEAT_PERIOD == 30000

\* LoggerClient.h:21,36  CHANNEL = BASECHANNEL + String(device_id)
CHANNEL == "device:1"

\* Bounds of the exploration: the time steps of a session, the frames it
\* sends, and the time steps of the clock estimate on its own.
MaxAdvances == 1
MaxFrames == 3
MaxClockAdvances == 2

\* The sensors the application configured (their number is what the
\* specification calls the configured sensor count).
SENSORS == <<"s0", "s1">>
NumSensors == Len(SENSORS)

\* Amounts of time that may pass between two steps: one millisecond, one
\* rejoin interval, and one millisecond less than a full period of the
\* millis() counter.
Deltas == {1, REJOIN_INTERVAL, UMod - 1}

\* Join payloads the application may configure with setJoinString().
JoinPayloads == {"cred1"}

-----------------------------------------------------------------------------
(* JSON values as ArduinoJson presents them to the handlers. *)

JAbsent == [t |-> "absent", n |-> 0, s |-> "", a |-> <<>>]
JInt(n) == [t |-> "int", n |-> n, s |-> "", a |-> <<>>]
JStr(s) == [t |-> "str", n |-> 0, s |-> s, a |-> <<>>]
JArr(a) == [t |-> "arr", n |-> 0, s |-> "", a |-> a]

\* JsonVariant::is<uint64_t>()
IsUint64(v) == v.t = "int" /\ v.n >= 0

\* JsonVariant::is<uint32_t>()
IsUint32(v) == v.t = "int" /\ v.n >= 0 /\ v.n < UMod

\* JsonArray::isNull() of variant.as<JsonArray>()
ArrayIsNull(v) == v.t # "arr"

\* A response object: payload["response"].
Resp(reason, group_id, sensors_ids, sensor_ids, timestamp) ==
  [reason |-> reason, group_id |-> group_id, sensors_ids |-> sensors_ids,
   sensor_ids |-> sensor_ids, timestamp |-> timestamp]

EmptyResp == Resp(JAbsent, JAbsent, JAbsent, JAbsent, JAbsent)

\* Marker of a field that the JSON document does not hold (a null char *).
NoField == "<absent>"

\* An inbound text frame: json says whether deserializeJson succeeds.
InFrame(json, topic, event, response) ==
  [json |-> json, topic |-> topic, event |-> event, ref |-> 0,
   response |-> response]

Ids2 == JArr(<<"10", "11">>)
Ids1 == JArr(<<"10">>)
InvalidToken == JStr("invalid token")

\* The shapes of inbound frames the transport may deliver.
FrameShapes ==
  { InFrame(FALSE, NoField, NoField, EmptyResp),
    InFrame(TRUE, NoField, "update", EmptyResp),
    InFrame(TRUE, CHANNEL, NoField, EmptyResp),
    InFrame(TRUE, CHANNEL, "update", EmptyResp),
    InFrame(TRUE, "device:2", "phx_reply", Resp(JAbsent, JInt(7), Ids2, Ids2, JAbsent)),
    InFrame(TRUE, CHANNEL, "phx_reply", Resp(JAbsent, JInt(7), Ids2, JAbsent, JAbsent)),
    InFrame(TRUE, CHANNEL, "phx_reply", Resp(JAbsent, JInt(7), JAbsent, Ids2, JAbsent)),
    InFrame(TRUE, CHANNEL, "phx_reply", Resp(JAbsent, JInt(7), Ids1, Ids1, JAbsent)),
    InFrame(TRUE, CHANNEL, "phx_reply", Resp(InvalidToken, JInt(7), Ids2, Ids2, JAbsent)),
    InFrame(TRUE, CHANNEL, "phx_reply", Resp(JAbsent, JStr("7"), Ids2, Ids2, JAbsent)),
    InFrame(TRUE, CHANNEL, "phx_reply", Resp(JAbsent, JAbsent, JAbsent, JAbsent, JInt(1000000000))),
    InFrame(TRUE, CHANNEL, "phx_reply", Resp(JAbsent, JAbsent, JAbsent, JAbsent, JInt(999999990))) }

-----------------------------------------------------------------------------
VARIABLES
  clock,              \* physical milliseconds since boot; millis() wraps it
  advances,           \* number of time steps taken (bounds the exploration)
  pc,                 \* "idle", or "pump" inside tick() while events arrive
  connected,          \* WebSocketsClient::isConnected()
  _channelJoined,     \* LoggerClient.h:73
  _joinString,        \* LoggerClient.h:66
  _lastRef,           \* LoggerClient.h:67
  _afterJoinCallback, \* LoggerClient.h:68, TRUE when a callback is set
  _ref_counter,       \* ESPPhoenixSocket.h:101
  _unix,              \* LoggerClient.h:71
  _lastUnix,          \* LoggerClient.h:72
  lastJoin,           \* LoggerClient.h:120, static of joinChannel
  lastSyncAttempt,    \* LoggerClient.h:100, static of getUnix
  \* observations of the run, not program state
  sentCount,          \* frames handed to the transport so far
  maxRefSent,         \* largest ref of any frame sent so far, -1 if none
  outbox,             \* frames sent by the last step, in order
  calls,              \* callbacks invoked by the last step, in order
  lastJoinAt,         \* physical time of the last phx_join, -1 if none
  joinCredit,         \* 1 from a phx_join until afterJoin is invoked, else 0
  rejected,           \* an "invalid token" reply answered the pending join
  synced,             \* a clock-sync reply has been processed
  connSent,           \* frames sent on the current connection
  lost,               \* an established connection has been lost
  lastBeatAt,         \* physical time of the last heartbeat, 0 if none
  lastSyncAt,         \* physical time of the last time request, -1 if none
  clk,                \* the history of the clock estimate (SpecClock)
  logger,             \* the fields of an ESPLogger object (SpecLogger)
  http,               \* the last _sendData call: outcomes, POSTs, result
  sched,              \* what the ticks of the ESPLogger did (SpecSched)
  codec               \* a frame, its wire text and what is read back (SpecCodec)

clientVars == <<_channelJoined, _joinString, _lastRef, _afterJoinCallback,
                _unix, _lastUnix, lastJoin, lastSyncAttempt>>
socketVars == <<connected, _ref_counter>>
obsVars == <<sentCount, maxRefSent, outbox, calls, lastJoinAt, joinCredit,
             rejected, synced, connSent, lost, lastBeatAt, lastSyncAt>>
\* Variables of the specifications that exercise one part of the program;
\* the steps of the session leave them alone.
sideVars == <<clk, logger, http, sched, codec>>
\* The variables of the LoggerClient session and of time.
sessionVars == <<clock, advances, pc, clientVars, socketVars, obsVars>>
vars == <<sessionVars, sideVars>>

\* millis(): the 32-bit counter of milliseconds since boot.
millis == clock % UMod

\* a - b in unsigned arithmetic of the counter width.
USub(a, b) == (a - b + UMod) % UMod

\* A callback invocation: the callback and, for afterJoin, its arguments.
Call(fn, arg) == [fn |-> fn, arg |-> arg, group_id |-> JAbsent, ids |-> JAbsent]
CallAfterJoin(group_id, ids) == [fn |-> "afterJoin", arg |-> "", group_id |-> group_id, ids |-> ids]

-----------------------------------------------------------------------------
(* PhoenixSocket: refs and outbound frames. *)

\* ESPPhoenixSocket.h:207-210  return ++_ref_counter;
_getNextRef(rc) == (rc + 1) % UMod

\* ESPPhoenixSocket.h:198-206: the frame written into the buffer; an empty
\* payload is sent as {}.
encodeMessageString(ref, topic, event, payload) ==
  [topic |-> topic, event |-> event, ref |-> ref,
   payload |-> IF payload = "" THEN "{}" ELSE payload]

\* The frames a step sends, given the payload-less descriptions in order:
\* each takes the next ref.
RECURSIVE EncodeAll(_, _)
EncodeAll(rc, msgs) ==
  IF msgs = <<>> THEN <<>>
  ELSE <<encodeMessageString(_getNextRef(rc), msgs[1].topic, msgs[1].event,
                             msgs[1].payload)>>
       \o EncodeAll(_getNextRef(rc), Tail(msgs))

Msg(topic, event, payload) == [topic |-> topic, event |-> event, payload |-> payload]

\* Value of the ref counter after n frames were encoded from rc.
RECURSIVE RefAfter(_, _)
RefAfter(rc, n) == IF n = 0 THEN rc ELSE RefAfter(_getNextRef(rc), n - 1)

MaxOf(S, d) == IF S = {} THEN d ELSE CHOOSE x \in S : \A y \in S : y <= x

\* Effect of handing msgs to the socket, in order, on the socket and on the
\* observations of sent frames.
Send(msgs) ==
  /\ sentCount + Len(msgs) <= MaxFrames
  /\ outbox' = EncodeAll(_ref_counter, msgs)
  /\ _ref_counter' = RefAfter(_ref_counter, Len(msgs))
  /\ sentCount' = sentCount + Len(msgs)
  /\ maxRefSent' = MaxOf({outbox'[i].ref : i \in DOMAIN outbox'} \cup {maxRefSent}, -1)
  /\ connSent' = IF connected THEN connSent + Len(msgs) ELSE connSent


\* No frame is sent by the step.
SendNothing ==
  /\ outbox' = <<>>
  /\ UNCHANGED <<_ref_counter, sentCount, maxRefSent, connSent>>

\* The refs of the frames sent on the current connection: the refs a
\* phx_reply of the server can carry.
RefsOnConnection == {USub(_ref_counter, k) : k \in 0..(connSent - 1)}

\* The inbound text frames the transport can deliver now: replies answer a
\* frame sent on this connection, everything else carries no ref.
InFramesOf(shapes) ==
  {f \in shapes : f.event # "phx_reply"}
  \cup {[f EXCEPT !.ref = r] : f \in {g \in shapes : g.event = "phx_reply"},
                               r \in RefsOnConnection}

InFrames == InFramesOf(FrameShapes)

-----------------------------------------------------------------------------
(* LoggerClient *)

\* LoggerClient.h:121  (millis() - lastJoin) > REJOIN_INTERVAL || lastJoin == 0
RejoinDue(now, last) == USub(now, last) > REJOIN_INTERVAL \/ last = 0

\* LoggerClient.h:111  lastSyncAttempt == 0 || (millis() - lastSyncAttempt) > 1000
\* lastSyncAttempt is uint64_t: the difference is taken in 64 bits, so a
\* millis() below lastSyncAttempt gives a value near 2^64.
SyncDue(now, last) ==
  last = 0 \/ (IF now >= last THEN now - last > SYNC_INTERVAL ELSE TRUE)

\* A client that does not look at response.reason.
ReasonIgnored(response) == FALSE

\* LoggerClient.h:185  response["reason"].as<String>() == "invalid token"
IsInvalidToken(response) ==
  response.reason.t = "str" /\ response.reason.s = "invalid token"

\* LoggerClient.h:190-193  the reply is refused unless group_id is an
\* unsigned integer and response["sensors_ids"] is an array.
JoinReplyRefused(response) ==
  ~IsUint64(response.group_id) \/ ArrayIsNull(response.sensors_ids)

\* LoggerClient.h:210  response["timestamp"].is<uint32_t>()
IsTimeReply(response) == IsUint32(response.timestamp)

\* A socket that takes every frame text for a parsed document.
ParseErrorIgnored(f) == FALSE

\* ESPPhoenixSocket.h:145-147  DeserializationError of the frame text
DeserializationError(f) == ~f.json

\* A re-basing that moves the anchor to now and so drops the milliseconds
\* beyond the last whole second.
RebaseTruncating(unix, lastUnix, now) ==
  LET diff == USub(now, lastUnix) IN
  IF diff > ONE_DAY
  THEN [unix |-> (unix + diff \div 1000) % UMod, lastUnix |-> now]
  ELSE [unix |-> unix, lastUnix |-> lastUnix]

\* LoggerClient.h:103-108: the anchor (unix, lastUnix) after getUnix()
\* re-based it at millis() = now.
Rebase(unix, lastUnix, now) ==
  LET diff == USub(now, lastUnix) IN
  IF diff > ONE_DAY
  THEN [unix |-> (unix + diff \div 1000) % UMod,
        lastUnix |-> USub(now, diff % 1000)]
  ELSE [unix |-> unix, lastUnix |-> lastUnix]

\* LoggerClient.h:101-117: the value getUnix() returns at millis() = now
\* when the anchor is (unix, lastUnix).
UnixAt(unix, lastUnix, now) ==
  IF unix # 0
  THEN LET r == Rebase(unix, lastUnix, now)
       IN (r.unix + USub(now, r.lastUnix) \div 1000) % UMod
  ELSE 0

RebasedUnix == Rebase(_unix, _lastUnix, millis)

\* The value getUnix() returns in the current state.
getUnixResult == UnixAt(_unix, _lastUnix, millis)

\* The variables a handler of an inbound frame may write.
replyVars == <<_channelJoined, _unix, _lastUnix, joinCredit, rejected, synced>>

\* Variables only tick() and the application's calls write.
callerVars == <<_joinString, _lastRef, _afterJoinCallback, lastJoin,
                lastSyncAttempt, lastJoinAt, lastBeatAt, lastSyncAt>>

\* LoggerClient.h:168-217  _handleReply(topic, event, payload)
_handleReply(f) ==
  LET response == f.response IN
  IF f.topic # CHANNEL THEN
    /\ calls' = <<Call("onReply", f.topic)>>
    /\ UNCHANGED replyVars
  ELSE IF ~_channelJoined THEN
    IF IsInvalidToken(response) THEN
      /\ calls' = <<Call("onReply", f.topic)>>
      /\ rejected' = (rejected \/ (joinCredit = 1 /\ f.ref = _lastRef))
      /\ UNCHANGED <<_channelJoined, _unix, _lastUnix, joinCredit, synced>>
    ELSE IF JoinReplyRefused(response) \/ ~_afterJoinCallback THEN
      /\ calls' = <<Call("onReply", f.topic)>>
      /\ UNCHANGED replyVars
    ELSE
      /\ calls' = <<Call("onReply", f.topic),
                    CallAfterJoin(response.group_id, response.sensors_ids)>>
      /\ _channelJoined' = TRUE
      /\ joinCredit' = 0
      /\ UNCHANGED <<_unix, _lastUnix, rejected, synced>>
  ELSE IF IsTimeReply(response) THEN
    /\ calls' = <<Call("onReply", f.topic)>>
    /\ _unix' = response.timestamp.n
    /\ _lastUnix' = millis
    /\ synced' = TRUE
    /\ UNCHANGED <<_channelJoined, joinCredit, rejected>>
  ELSE
    /\ calls' = <<Call("onReply", f.topic)>>
    /\ UNCHANGED replyVars

\* A socket that hands on a frame whatever fields it lacks.
FieldsNotChecked(f) == TRUE

\* ESPPhoenixSocket.h:160  topic && event: both fields are in the document.
HasTopicAndEvent(f) == f.topic # NoField /\ f.event # NoField

\* A socket that takes every event for a reply.
EveryEventIsReply(f) == TRUE

\* ESPPhoenixSocket.h:162  strcmp(event, "phx_reply") == 0
IsReply(f) == f.event = "phx_reply"

\* ESPPhoenixSocket.h:142-171  _handleIncomingMessage(payload), with the
\* callbacks LoggerClient registers (LoggerClient.h:43-48, 226-239).
_handleIncomingMessage(f) ==
  IF DeserializationError(f) THEN
    /\ calls' = <<Call("onError", "JSON parse error")>>
    /\ UNCHANGED replyVars
  ELSE IF ~HasTopicAndEvent(f) THEN
    /\ calls' = <<>>
    /\ UNCHANGED replyVars
  ELSE IF IsReply(f) THEN
    _handleReply(f)
  ELSE
    /\ calls' = <<Call("onMessage", f.topic)>>
    /\ UNCHANGED replyVars

-----------------------------------------------------------------------------
(* Steps.  tick() runs PhoenixSocket::loop(), whose _webSocket.loop()      *)
(* delivers the transport's events one by one (the Ws actions, pc = "pump")*)
(* and then does the heartbeat and the join check (the action tick).       *)

\* ESPPhoenixSocket.h:126-129  WStype_CONNECTED, LoggerClient.h:218-221
WsConnected ==
  /\ ~connected
  /\ connected' = TRUE
  /\ pc' = "pump"
  /\ calls' = <<Call("onConnect", "")>>
  /\ outbox' = <<>>
  /\ connSent' = 0
  /\ UNCHANGED <<clock, advances, callerVars, replyVars, _ref_counter,
                 sentCount, maxRefSent, lost>>
  /\ UNCHANGED sideVars

\* ESPPhoenixSocket.h:122-125  WStype_DISCONNECTED, LoggerClient.h:38-40
WsDisconnected ==
  /\ connected' = FALSE
  /\ _channelJoined' = FALSE
  /\ pc' = "pump"
  /\ calls' = <<Call("onClose", "1000")>>
  /\ outbox' = <<>>
  /\ connSent' = 0
  /\ lost' = (lost \/ connected)
  /\ UNCHANGED <<clock, advances, callerVars, _unix, _lastUnix, joinCredit,
                 rejected, synced, _ref_counter, sentCount, maxRefSent>>
  /\ UNCHANGED sideVars

\* ESPPhoenixSocket.h:130-132  WStype_TEXT
WsText(f) ==
  /\ connected
  /\ pc' = "pump"
  /\ _handleIncomingMessage(f)
  /\ SendNothing
  /\ UNCHANGED <<clock, advances, connected, callerVars, lost>>
  /\ UNCHANGED sideVars

\* ESPPhoenixSocket.h:133-136  WStype_ERROR, LoggerClient.h:236-239
WsError ==
  /\ pc' = "pump"
  /\ calls' = <<Call("onError", "Websocket error")>>
  /\ SendNothing
  /\ UNCHANGED <<clock, advances, connected, callerVars, replyVars, lost>>
  /\ UNCHANGED sideVars

\* LoggerClient.h:160-167 tick() after the pump: ESPPhoenixSocket.h:69-73
\* (heartbeat) and LoggerClient.h:118-128 (joinChannel).
tick ==
  LET hb == millis % HEARTBEAT_PERIOD = 0
      doJoin == ~_channelJoined /\ connected /\ RejoinDue(millis, lastJoin)
      msgs == (IF hb THEN <<Msg("phoenix", "heartbeat", "{}")>> ELSE <<>>)
              \o (IF doJoin THEN <<Msg(CHANNEL, "phx_join", _joinString)>>
                  ELSE <<>>)
  IN
  /\ Send(msgs)
  /\ pc' = "idle"
  /\ _lastRef' = IF doJoin THEN outbox'[Len(outbox')].ref ELSE _lastRef
  /\ lastJoin' = IF doJoin THEN millis ELSE lastJoin
  /\ lastJoinAt' = IF doJoin THEN clock ELSE lastJoinAt
  /\ joinCredit' = IF doJoin THEN 1 ELSE joinCredit
  /\ lastBeatAt' = IF hb THEN clock ELSE lastBeatAt
  /\ calls' = <<>>
  /\ UNCHANGED <<clock, advances, connected, _channelJoined, _joinString,
                 _afterJoinCallback, _unix, _lastUnix, lastSyncAttempt,
                 rejected, synced, lost, lastSyncAt>>
  /\ UNCHANGED sideVars

\* LoggerClient.h:177-205: the inbound frame f reaches the invocation of
\* the afterJoin callback.
InvokesAfterJoin(f) ==
  /\ ~DeserializationError(f)
  /\ HasTopicAndEvent(f)
  /\ IsReply(f)
  /\ f.topic = CHANNEL
  /\ ~_channelJoined
  /\ ~IsInvalidToken(f.response)
  /\ ~JoinReplyRefused(f.response)
  /\ _afterJoinCallback

\* WStype_TEXT with a frame that invokes afterJoin, when the application's
\* callback calls tick() (LoggerClient.h:160-167) before it returns.  The
\* callback runs at LoggerClient.h:205, before _channelJoined is set at
\* LoggerClient.h:206, so the inner tick() sees the channel unjoined; its
\* _webSocket.loop() has no further event to deliver.
tickInAfterJoin(f) ==
  LET hb == millis % HEARTBEAT_PERIOD = 0
      doJoin == connected /\ RejoinDue(millis, lastJoin)
      msgs == (IF hb THEN <<Msg("phoenix", "heartbeat", "{}")>> ELSE <<>>)
              \o (IF doJoin THEN <<Msg(CHANNEL, "phx_join", _joinString)>>
                  ELSE <<>>)
  IN
  /\ connected
  /\ InvokesAfterJoin(f)
  /\ Send(msgs)
  /\ pc' = "pump"
  /\ calls' = <<Call("onReply", f.topic),
                CallAfterJoin(f.response.group_id, f.response.sensors_ids)>>
  /\ _lastRef' = IF doJoin THEN outbox'[Len(outbox')].ref ELSE _lastRef
  /\ lastJoin' = IF doJoin THEN millis ELSE lastJoin
  /\ lastJoinAt' = IF doJoin THEN clock ELSE lastJoinAt
  /\ joinCredit' = IF doJoin THEN 1 ELSE 0
  /\ lastBeatAt' = IF hb THEN clock ELSE lastBeatAt
  /\ _channelJoined' = TRUE
  /\ UNCHANGED <<clock, advances, connected, _joinString, _afterJoinCallback,
                 _unix, _lastUnix, lastSyncAttempt, rejected, synced, lost,
                 lastSyncAt>>
  /\ UNCHANGED sideVars

\* LoggerClient.h:81-84
setJoinString(p) ==
  /\ pc = "idle"
  /\ _joinString' = p
  /\ rejected' = FALSE
  /\ calls' = <<>>
  /\ SendNothing
  /\ UNCHANGED <<clock, advances, pc, connected, _channelJoined, _lastRef,
                 _afterJoinCallback, _unix, _lastUnix, lastJoin,
                 lastSyncAttempt, lastJoinAt, joinCredit, synced, lost,
                 lastBeatAt, lastSyncAt>>
  /\ UNCHANGED sideVars

\* LoggerClient.h:94-97
setAfterJoinCallback ==
  /\ pc = "idle"
  /\ _afterJoinCallback' = TRUE
  /\ calls' = <<>>
  /\ SendNothing
  /\ UNCHANGED <<clock, advances, pc, connected, _joinString, _lastRef,
                 lastJoin, lastSyncAttempt, lastJoinAt, replyVars, lost,
                 lastBeatAt, lastSyncAt>>
  /\ UNCHANGED sideVars

\* LoggerClient.h:143-147
sendStatus ==
  /\ pc = "idle"
  /\ Send(<<Msg(CHANNEL, "status", "{\"rssi\":-60}")>>)
  /\ calls' = <<>>
  /\ UNCHANGED <<clock, advances, pc, connected, callerVars, replyVars, lost>>
  /\ UNCHANGED sideVars

\* LoggerClient.h:129-135
sendSensorData ==
  /\ pc = "idle"
  /\ Send(<<Msg(CHANNEL, "new_value_sensor:10", "{\"value\":\"1.000000\"}")>>)
  /\ calls' = <<>>
  /\ UNCHANGED <<clock, advances, pc, connected, callerVars, replyVars, lost>>
  /\ UNCHANGED sideVars

\* A client whose time request goes out twice.
SyncTimeTwice ==
  Send(<<Msg(CHANNEL, "time", ""), Msg(CHANNEL, "time", "")>>)

\* LoggerClient.h:148-153  _syncTime(): sendEvent(_channelTopic, "time", "")
_syncTime ==
  Send(<<Msg(CHANNEL, "time", "")>>)

\* LoggerClient.h:98-117
getUnix ==
  /\ pc = "idle"
  /\ calls' = <<>>
  /\ IF _unix # 0 THEN
       /\ _unix' = RebasedUnix.unix
       /\ _lastUnix' = RebasedUnix.lastUnix
       /\ SendNothing
       /\ UNCHANGED <<lastSyncAttempt, lastSyncAt>>
     ELSE IF _channelJoined /\ SyncDue(millis, lastSyncAttempt) THEN
       /\ lastSyncAttempt' = millis
       /\ lastSyncAt' = clock
       /\ _syncTime
       /\ UNCHANGED <<_unix, _lastUnix>>
     ELSE
       /\ SendNothing
       /\ UNCHANGED <<_unix, _lastUnix, lastSyncAttempt, lastSyncAt>>
  /\ UNCHANGED <<clock, advances, pc, connected, _channelJoined, _joinString,
                 _lastRef, _afterJoinCallback, lastJoin, lastJoinAt,
                 joinCredit, rejected, synced, lost, lastBeatAt>>
  /\ UNCHANGED sideVars

\* d milliseconds pass, in an exploration of at most `most' time steps.
TimePasses(d, most) ==
  /\ advances < most
  /\ d <= ClockLimit - clock
  /\ clock' = clock + d
  /\ advances' = advances + 1
  /\ calls' = <<>>
  /\ SendNothing
  /\ UNCHANGED <<pc, connected, callerVars, replyVars, lost>>
  /\ UNCHANGED sideVars

\* d milliseconds pass between two steps of the session or of the logger.
Advance(d) == TimePasses(d, MaxAdvances)

\* d milliseconds pass between two readings of the clock.
ClockAdvance(d) == TimePasses(d, MaxClockAdvances)

\* Logger.h:313-324: an ESPLogger as its constructor leaves it; li and sri
\* are what the fields without initializer, _logInterval and
\* _sensorReadInterval, happen to hold.  retries is the static counter of
\* _sendData (Logger.h:360).
\* values holds, for each sensor, the readings its _sensorValues document
\* buffers (Logger.h:114).
NewLogger(li, sri) ==
  [_unix |-> 0, _lastUnix |-> 0, _logInterval |-> li,
   _sensorReadInterval |-> sri, _lastSensorRead |-> 0, _lastLog |-> 0,
   retries |-> 0, _transmitting |-> FALSE, _sensorIntervalOffset |-> 0,
   _lastSensorTimeStamp |-> 0, values |-> [i \in 1..NumSensors |-> <<>>]]

\* No _sendData call was made yet.
NoPost == [codes |-> <<>>, posts |-> 0, ret |-> "none"]

\* No tick() of the ESPLogger ran yet.  batch is the number of sensor
\* batches the last tick() executed and log the result of its log attempt
\* ("none" without attempt); payload holds the readings of the last log
\* attempt and sent those of the attempts before it; batches counts the
\* batches executed so far and gap is the time from the completion of the
\* batch before the last to the start of the last (-1 before the second
\* batch).  syncAt, doneAt and logAt are the physical
\* times at which the clock estimate was last obtained, the last batch
\* completed and the last log attempt was made (-1 if never); fresh says
\* that no tick() ran since the estimate was first obtained, moved that
\* the estimate was obtained anew or the logger started since the last
\* batch.
NoTick ==
  [batch |-> 0, log |-> "none", payload |-> {}, sent |-> {}, batches |-> 0,
   gap |-> -1, syncAt |-> -1, doneAt |-> -1, logAt |-> -1, fresh |-> FALSE,
   moved |-> FALSE]

\* No frame was given to the codec yet.
NoMessage ==
  [topic |-> <<>>, event |-> <<>>, ref |-> 0, payload |-> <<>>,
   wire |-> <<>>, out |-> [error |-> "none"]]

\* The history of the clock estimate before any reply set it: ts is the
\* timestamp of the last clock-sync reply (-1 if none), at the physical time
\* it was processed, last the physical time of the last reading of the clock
\* (or of the reply), gap the longest time between two successive readings
\* since the reply, ret the value the last reading returned (-1 if none).
NoEstimate == [ts |-> -1, at |-> 0, last |-> 0, gap |-> 0, ret |-> -1]

\* The state when the constructor returns (LoggerClient.h:31-51,
\* ESPPhoenixSocket.h:29-36): not connected, nothing sent.
\* _lastRef has no initializer (LoggerClient.h:67); the program never reads
\* it, and the properties below read it only after a phx_join assigned it.
InitSession ==
  /\ clock = 1
  /\ advances = 0
  /\ pc = "idle"
  /\ connected = FALSE
  /\ _channelJoined = FALSE
  /\ _joinString = ""
  /\ _lastRef = 0
  /\ _afterJoinCallback = FALSE
  /\ _ref_counter = 0
  /\ _unix = 0
  /\ _lastUnix = 0
  /\ lastJoin = 0
  /\ lastSyncAttempt = 0
  /\ sentCount = 0
  /\ maxRefSent = -1
  /\ outbox = <<>>
  /\ calls = <<>>
  /\ lastJoinAt = -1
  /\ joinCredit = 0
  /\ rejected = FALSE
  /\ synced = FALSE
  /\ connSent = 0
  /\ lost = FALSE
  /\ lastBeatAt = 0
  /\ lastSyncAt = -1

\* The session of a LoggerClient; the other parts of the library are idle.
Init ==
  /\ InitSession
  /\ clk = NoEstimate
  /\ logger = NewLogger(0, 0)
  /\ http = NoPost
  /\ sched = NoTick
  /\ codec = NoMessage

Next ==
  \/ WsConnected
  \/ WsDisconnected
  \/ \E f \in InFrames : WsText(f)
  \/ WsError
  \/ tick
  \/ \E f \in InFrames : tickInAfterJoin(f)
  \/ \E p \in JoinPayloads : setJoinString(p)
  \/ setAfterJoinCallback
  \/ sendStatus
  \/ sendSensorData
  \/ getUnix
  \/ \E d \in Deltas : Advance(d)

Spec == Init /\ [][Next]_vars

\* The same program after it has run for a long time: the caller has sent
\* status frames (sendStatus, which needs no connection) until the ref
\* counter is two below the end of its range, and the millisecond counter
\* has just wrapped: millis() reads 0.  Nothing else has happened yet.
InitAged ==
  /\ clock = UMod
  /\ advances = 0
  /\ pc = "idle"
  /\ connected = FALSE
  /\ _channelJoined = FALSE
  /\ _joinString = ""
  /\ _lastRef = 0
  /\ _afterJoinCallback = FALSE
  /\ _ref_counter = UMod - 2
  /\ _unix = 0
  /\ _lastUnix = 0
  /\ lastJoin = 0
  /\ lastSyncAttempt = 0
  /\ sentCount = 0
  /\ maxRefSent = UMod - 2
  /\ outbox = <<>>
  /\ calls = <<>>
  /\ lastJoinAt = -1
  /\ joinCredit = 0
  /\ rejected = FALSE
  /\ synced = FALSE
  /\ connSent = 0
  /\ lost = FALSE
  /\ lastBeatAt = 0
  /\ lastSyncAt = -1
  /\ clk = NoEstimate
  /\ logger = NewLogger(0, 0)
  /\ http = NoPost
  /\ sched = NoTick
  /\ codec = NoMessage

SpecAged == InitAged /\ [][Next]_vars

-----------------------------------------------------------------------------
(* The clock estimate on its own: a reply sets it, the application reads *)
(* it, and time passes in steps that reach the re-basing threshold and   *)
(* the wrap of millis().  LoggerClient::getUnix and ESPLogger::getUnix    *)
(* (Logger.h:262-275) are the same code.                                  *)

\* The timestamps a clock-sync reply carries.
ClockStamps == {1000000000, 999999990}

\* The longest time between two readings after which the anchor, which a
\* reading may leave up to ONE_DAY old, is still less than one turn of the
\* millisecond counter away.
SafeGap == (UMod - 1) - ONE_DAY

\* The times that pass between two steps.
ClockDeltas == {5000, ONE_DAY, SafeGap, UMod - 1000}

\* LoggerClient.h:210-215  _unix = response["timestamp"]; _lastUnix = millis()
ClockSynced(ts) ==
  /\ _unix' = ts
  /\ _lastUnix' = millis
  /\ synced' = TRUE
  /\ clk' = [ts |-> ts, at |-> clock, last |-> clock, gap |-> 0, ret |-> -1]
  /\ UNCHANGED <<clock, advances, pc, connected, _channelJoined, _joinString,
                 _lastRef, _afterJoinCallback, _ref_counter, lastJoin,
                 lastSyncAttempt, sentCount, maxRefSent, outbox, calls,
                 lastJoinAt, joinCredit, rejected, connSent, lost,
                 lastBeatAt, lastSyncAt, logger, http, sched, codec>>

\* LoggerClient.h:101-110  getUnix() when an estimate is stored
ClockRead ==
  /\ _unix # 0
  /\ _unix' = RebasedUnix.unix
  /\ _lastUnix' = RebasedUnix.lastUnix
  /\ clk' = [clk EXCEPT !.ret = getUnixResult,
                        !.last = clock,
                        !.gap = IF clock - clk.last > clk.gap
                                THEN clock - clk.last ELSE clk.gap]
  /\ UNCHANGED <<clock, advances, pc, connected, _channelJoined, _joinString,
                 _lastRef, _afterJoinCallback, _ref_counter, lastJoin,
                 lastSyncAttempt, sentCount, maxRefSent, outbox, calls,
                 lastJoinAt, joinCredit, rejected, synced, connSent, lost,
                 lastBeatAt, lastSyncAt, logger, http, sched, codec>>

NextClock ==
  \/ \E ts \in ClockStamps : ClockSynced(ts)
  \/ ClockRead
  \/ \E d \in ClockDeltas : ClockAdvance(d)

SpecClock == Init /\ [][NextClock]_vars

-----------------------------------------------------------------------------
(* ESPLogger, the HTTP variant (Logger.h): the configuration of the       *)
(* intervals and the upload of a log with its retries.                     *)

\* Logger.h:24-27
MAX_INTERVAL == 3600
MIN_INTERVAL == 60
MAX_SENSOR_INTERVAL == 1800
MIN_SENSOR_INTERVAL == 10

\* The number of HTTP outcomes supplied to one _sendData call.
MaxOutcomes == 5

\* The values a u32_t argument of the setters takes: around the limits of
\* both intervals and around the sign bit.
IntervalInputs ==
  {0, 9, 10, 11, 59, 61, 1800, 1801, 3601,
   UMod \div 2 - 1, UMod \div 2, UMod - 1}

\* What a field without initializer may hold.
Uninitialized == {0, UMod - 1}

\* The status codes of HTTPClient::POST: created, and a failure.
HttpCodes == {201, 500}

\* All sequences of n outcomes.
RECURSIVE Outcomes(_)
Outcomes(n) ==
  IF n = 0 THEN {<<>>}
  ELSE {<<c>> \o t : c \in HttpCodes, t \in Outcomes(n - 1)}

\* What _syncTime() gets: -1 when WiFi is down or the GET does not return
\* 200, else the unix_time of the answer.
SyncOutcomes == {-1, 1000000000}

\* (int)v of an unsigned v: the value with the top bit as the sign.
ToInt(v) == IF v >= UMod \div 2 THEN v - UMod ELSE v

\* A signed value stored in an unsigned field.
ToUnsigned(i) == (i + UMod) % UMod

\* max(min(x, hi), lo) on signed integers
ClampInt(x, hi, lo) ==
  LET m == IF x < hi THEN x ELSE hi IN IF m > lo THEN m ELSE lo

\* Logger.h:227-230
setSensorReadInterval(v) ==
  /\ logger' = [logger EXCEPT !._sensorReadInterval =
                  ToUnsigned(ClampInt(ToInt(v), MAX_SENSOR_INTERVAL,
                                      MIN_SENSOR_INTERVAL))]
  /\ UNCHANGED <<sessionVars, clk, http, sched, codec>>

\* Logger.h:235-238
setLogInterval(v) ==
  /\ logger' = [logger EXCEPT !._logInterval =
                  ToUnsigned(ClampInt(ToInt(v), MAX_INTERVAL, MIN_INTERVAL))]
  /\ UNCHANGED <<sessionVars, clk, http, sched, codec>>

\* An upload that gives up after two retries.
RetryTwice(retries) == retries < 2

\* Logger.h:385  retries < 3
MayRetry(retries) == retries < 3

\* Logger.h:358-396: the run of _sendData entered with the static counter
\* at retries, the POSTs answering with codes in order, after n POSTs of
\* this cycle: the value returned, the counter left behind and the POSTs
\* made.  The run is unfinished when it asks for more outcomes than codes
\* holds.
RECURSIVE sendDataFrom(_, _, _)
sendDataFrom(retries, codes, n) ==
  IF codes = <<>> THEN
    [ret |-> "unfinished", retries |-> retries, posts |-> n]
  ELSE IF Head(codes) = 201 THEN
    [ret |-> "true", retries |-> 0, posts |-> n + 1]
  ELSE IF MayRetry(retries) THEN
    sendDataFrom(retries + 1, Tail(codes), n + 1)
  ELSE
    [ret |-> "false", retries |-> 0, posts |-> n + 1]

\* Logger.h:466-513  _syncTime() without argument, on the object lg
ESPLogger_syncTime(lg, outcome) ==
  IF outcome = -1 THEN lg
  ELSE [lg EXCEPT !._unix = outcome, !._lastUnix = millis,
                  !._lastLog = outcome, !._lastSensorRead = outcome]

\* Logger.h:358-396  _sendData(payload): the POSTs and, after a 201 more
\* than a day after the last sync, _syncTime() (Logger.h:372-373).
_sendData(codes, sync) ==
  LET run == sendDataFrom(logger.retries, codes, 0)
      counted == [logger EXCEPT !.retries = run.retries]
  IN
  /\ logger' = IF run.ret = "true" /\ USub(millis, logger._lastUnix) > ONE_DAY
               THEN ESPLogger_syncTime(counted, sync)
               ELSE counted
  /\ http' = [codes |-> codes, posts |-> run.posts, ret |-> run.ret]
  /\ UNCHANGED <<sessionVars, clk, sched, codec>>

\* The times that pass between two steps of the logger.
LoggerDeltas == {REJOIN_INTERVAL, ONE_DAY}

\* Logger.h:125-140, 313-324: a constructed ESPLogger.
InitLogger ==
  /\ InitSession
  /\ clk = NoEstimate
  /\ logger \in {NewLogger(li, sri) : li \in Uninitialized, sri \in Uninitialized}
  /\ http = NoPost
  /\ sched = NoTick
  /\ codec = NoMessage

NextLogger ==
  \/ \E v \in IntervalInputs : setSensorReadInterval(v)
  \/ \E v \in IntervalInputs : setLogInterval(v)
  \/ \E codes \in Outcomes(MaxOutcomes), sync \in SyncOutcomes :
       _sendData(codes, sync)
  \/ \E d \in LoggerDeltas : Advance(d)

SpecLogger == InitLogger /\ [][NextLogger]_vars

-----------------------------------------------------------------------------
(* ESPLogger::tick (Logger.h:166-198): the cadence of the sensor batches   *)
(* and of the log attempts.                                                 *)

\* The time steps of a logger that ticks.
MaxSchedAdvances == 3

\* The intervals, in seconds, the application passes to init().
SchedIntervals == {10, 11}
LogIntervals == {60}

\* The times that pass between two steps of the scheduler, and the time the
\* sensor callbacks of one batch take.
SchedDeltas == {6000, 10000, 11000, 61000}
BatchDurations == {0, 3000}

\* The outcomes of the POSTs of one log attempt.
UploadOutcomes == {<<201>>, <<500, 500, 500, 500>>}

\* Logger.h:262-275  getUnix() at millis() = now: the object with the
\* anchor re-based, and the value returned.
ESPLogger_rebased(lg, now) ==
  LET r == Rebase(lg._unix, lg._lastUnix, now)
  IN [lg EXCEPT !._unix = r.unix, !._lastUnix = r.lastUnix]

ESPLogger_getUnix(lg, now) == UnixAt(lg._unix, lg._lastUnix, now)

\* A synchronisation that leaves the time of the last sensor batch alone.
LastReadKept(lg, unix) == lg._lastSensorRead

\* Logger.h:473, 504  _lastSensorRead = _unix
LastReadAtSync(lg, unix) == unix

\* Logger.h:466-513  _syncTime() at millis() = now
ESPLogger_syncTimeAt(lg, outcome, now) ==
  IF outcome = -1 THEN lg
  ELSE [lg EXCEPT !._unix = outcome, !._lastUnix = now,
                  !._lastLog = outcome,
                  !._lastSensorRead = LastReadAtSync(lg, outcome)]

\* min(max(0, diff), 5)
ClampOffset(diff) == IF diff < 0 THEN 0 ELSE IF diff > 5 THEN 5 ELSE diff

\* Logger.h:341-345: the values _sensorIntervalOffset may hold after a batch
\* stamped timestamp.  The difference is computed on ints; when it leaves
\* their range the behaviour is undefined and any clamped value may result.
OffsetsAfter(lg, timestamp) ==
  LET diff == (ToInt(timestamp) - ToInt(lg._lastSensorTimeStamp))
              - ToInt(lg._sensorReadInterval)
  IN IF diff >= UMod \div 2 \/ diff < 0 - UMod \div 2 THEN 0..5
     ELSE IF lg._lastSensorTimeStamp # 0 /\ diff # 0 THEN {ClampOffset(diff)}
     ELSE {lg._sensorIntervalOffset}

\* A scheduler that reads the sensors when the interval has just elapsed.
BatchDueAtInterval(lg, now) ==
  USub(ESPLogger_getUnix(lg, now), lg._lastSensorRead)
    >= USub(lg._sensorReadInterval, lg._sensorIntervalOffset)

\* Logger.h:337  getUnix() - _lastSensorRead > _sensorReadInterval - _sensorIntervalOffset
BatchDue(lg, now) ==
  USub(ESPLogger_getUnix(lg, now), lg._lastSensorRead)
    > USub(lg._sensorReadInterval, lg._sensorIntervalOffset)

\* Logger.h:335-357, 91-101  _updateSensors() when the batch is due, begun
\* at millis() = now: every sensor records a reading stamped with the time
\* of the start, the callbacks take dur milliseconds, and _lastSensorRead
\* is the time of the end.  serial numbers the batch.
_updateSensors(lg, now, dur, off, serial) ==
  LET g == ESPLogger_rebased(lg, now)
      timestamp == ESPLogger_getUnix(g, now)
      done == (now + dur) % UMod
      h == ESPLogger_rebased(g, done)
  IN [h EXCEPT !._sensorIntervalOffset = off,
               !.values = [i \in 1..NumSensors |->
                             Append(lg.values[i],
                                    [timestamp |-> timestamp, batch |-> serial])],
               !._lastSensorTimeStamp = timestamp,
               !._lastSensorRead = ESPLogger_getUnix(h, done)]

\* A log that leaves the readings in the buffers of the sensors.
ReadingsKept(values) == values

\* Logger.h:102-109  getJson() of every sensor: _sensorValues.clear()
ReadingsTaken(values) == [i \in DOMAIN values |-> <<>>]

\* The batches whose readings a payload built from the buffers holds.
BatchesIn(values) ==
  UNION {{values[i][k].batch : k \in DOMAIN values[i]} : i \in DOMAIN values}

\* Logger.h:152-164  init(): the setters, start() (Logger.h:284-289) and
\* _sendStatus (Logger.h:440-465), whose answer, when it is 200, carries
\* the time status (-1: another answer).  The application calls it once.
init(sri, li, status) ==
  LET set == [logger EXCEPT
                !._logInterval =
                   ToUnsigned(ClampInt(ToInt(li), MAX_INTERVAL, MIN_INTERVAL)),
                !._sensorReadInterval =
                   ToUnsigned(ClampInt(ToInt(sri), MAX_SENSOR_INTERVAL,
                                       MIN_SENSOR_INTERVAL))]
      started == [set EXCEPT !._lastLog = ESPLogger_getUnix(set, millis),
                             !._lastSensorRead = ESPLogger_getUnix(set, millis),
                             !._transmitting = TRUE]
  IN
  /\ ~logger._transmitting
  /\ logger' = ESPLogger_syncTimeAt(started, status, millis)
  /\ sched' = [sched EXCEPT !.batch = 0, !.log = "none",
                            !.syncAt = IF status = -1 THEN @ ELSE clock,
                            !.fresh = status # -1,
                            !.moved = TRUE]
  /\ UNCHANGED <<sessionVars, clk, http, codec>>

\* Logger.h:166-198  tick().  When a batch runs its callbacks take dur
\* milliseconds; codes are the answers to the POSTs of a log attempt and
\* sync is what _syncTime() obtains.
ESPLogger_tick(dur, codes, sync) ==
  IF ~logger._transmitting THEN
    /\ sched' = [sched EXCEPT !.batch = 0, !.log = "none"]
    /\ UNCHANGED <<sessionVars, clk, logger, http, codec>>
  ELSE IF ESPLogger_getUnix(logger, millis) = 0 THEN
    /\ logger' = ESPLogger_syncTimeAt(logger, sync, millis)
    /\ sched' = [sched EXCEPT !.batch = 0, !.log = "none",
                              !.syncAt = IF sync = -1 THEN @ ELSE clock,
                              !.fresh = sync # -1,
                              !.moved = IF sync = -1 THEN @ ELSE TRUE]
    /\ UNCHANGED <<sessionVars, clk, http, codec>>
  ELSE
    LET due == BatchDue(ESPLogger_rebased(logger, millis), millis)
        took == IF due THEN dur ELSE 0
        now2 == (clock + took) % UMod
    IN
    /\ clock + took <= ClockLimit
    /\ \E off \in OffsetsAfter(logger, ESPLogger_getUnix(logger, millis)) :
         LET g1 == IF due
                   THEN _updateSensors(logger, millis, dur, off,
                                       sched.batches + 1)
                   ELSE ESPLogger_rebased(logger, millis)
             u2 == ESPLogger_getUnix(g1, now2)
             logDue == USub(u2, g1._lastLog) > g1._logInterval
             g2 == [g1 EXCEPT !._lastLog = u2,
                              !.values = ReadingsTaken(g1.values)]
             run == sendDataFrom(g2.retries, codes, 0)
             g3 == [g2 EXCEPT !.retries = run.retries]
             again == run.ret = "true" /\ USub(now2, g3._lastUnix) > ONE_DAY
             g4 == IF again THEN ESPLogger_syncTimeAt(g3, sync, now2) ELSE g3
             g5 == IF run.ret = "true"
                   THEN [g4 EXCEPT !._lastLog = ESPLogger_getUnix(g4, now2)]
                   ELSE g4
         IN
         /\ logger' = IF logDue THEN g5 ELSE g1
         /\ http' = IF logDue
                    THEN [codes |-> codes, posts |-> run.posts, ret |-> run.ret]
                    ELSE http
         /\ sched' = [sched EXCEPT
                        !.batch = IF due THEN 1 ELSE 0,
                        !.batches = IF due THEN @ + 1 ELSE @,
                        !.log = IF logDue THEN run.ret ELSE "none",
                        !.payload = IF logDue THEN BatchesIn(g1.values) ELSE @,
                        !.sent = IF logDue THEN @ \cup sched.payload ELSE @,
                        !.gap = IF due /\ sched.doneAt # -1
                                THEN clock - sched.doneAt ELSE @,
                        !.doneAt = IF due THEN clock + took ELSE @,
                        !.logAt = IF logDue THEN clock + took ELSE @,
                        !.fresh = FALSE,
                        !.moved = IF logDue /\ again /\ sync # -1 THEN TRUE
                                  ELSE IF due THEN FALSE ELSE @]
    /\ clock' = clock + took
    /\ UNCHANGED <<advances, pc, clientVars, socketVars, obsVars, clk, codec>>

\* d milliseconds pass between two steps of the scheduler.
SchedAdvance(d) == TimePasses(d, MaxSchedAdvances)

NextSched ==
  \/ \E sri \in SchedIntervals, li \in LogIntervals, status \in SyncOutcomes :
       init(sri, li, status)
  \/ \E dur \in BatchDurations, codes \in UploadOutcomes, sync \in SyncOutcomes :
       ESPLogger_tick(dur, codes, sync)
  \/ \E d \in SchedDeltas : SchedAdvance(d)

SpecSched == InitLogger /\ [][NextSched]_vars

-----------------------------------------------------------------------------
(* The wire text of a frame: what encodeMessageString writes and what     *)
(* _handleIncomingMessage reads back.  A text is a sequence of characters. *)

\* ESPPhoenixSocket.h:175, 185  char message[1024]
MESSAGE_SIZE == 1024

\* The length of the long payload.
LongLen == 1100

Q == "\""

\* ESPPhoenixSocket.h:17  MESSAGE_STRING, between its conversions
Piece1 == <<"{", Q, "t", "o", "p", "i", "c", Q, ":", Q>>
Piece2 == <<Q, ",", Q, "e", "v", "e", "n", "t", Q, ":", Q>>
Piece3 == <<Q, ",", Q, "r", "e", "f", Q, ":", Q>>
Piece4 == <<Q, ",", Q, "p", "a", "y", "l", "o", "a", "d", Q, ":">>
Piece5 == <<"}">>

DigitChars == <<"0", "1", "2", "3", "4", "5", "6", "7", "8", "9">>

\* %u: the decimal digits of n
RECURSIVE Decimal(_)
Decimal(n) ==
  IF n < 10 THEN <<DigitChars[n + 1]>>
  ELSE Decimal(n \div 10) \o <<DigitChars[(n % 10) + 1]>>

\* snprintf(buffer, length, ...): at most length - 1 characters are written.
Truncate(text, length) ==
  IF Len(text) <= length - 1 THEN text ELSE SubSeq(text, 1, length - 1)

\* ESPPhoenixSocket.h:198-206  the text encodeMessageString leaves in a
\* buffer of length characters.
encodeMessageChars(length, topic, event, ref, payload) ==
  Truncate(Piece1 \o topic \o Piece2 \o event \o Piece3 \o Decimal(ref)
             \o Piece4 \o (IF Len(payload) = 0 THEN <<"{", "}">> ELSE payload)
             \o Piece5,
           length)

StartsWith(text, p) == Len(text) >= Len(p) /\ SubSeq(text, 1, Len(p)) = p
Drop(text, n) == SubSeq(text, n + 1, Len(text))

\* The position of the first quote of text, 0 if it has none.
IndexOfQuote(text) ==
  IF \E i \in DOMAIN text : text[i] = Q
  THEN CHOOSE i \in DOMAIN text :
         text[i] = Q /\ \A j \in 1..(i - 1) : text[j] # Q
  ELSE 0

\* The nesting depth after the first i characters of text, brackets inside
\* strings not counted.
Depth(text, i) ==
  LET outside(j) == Cardinality({k \in 1..(j - 1) : text[k] = Q}) % 2 = 0
  IN Cardinality({j \in 1..i : text[j] \in {"{", "["} /\ outside(j)})
     - Cardinality({j \in 1..i : text[j] \in {"}", "]"} /\ outside(j)})

\* What deserializeJson makes of the text of a value: an object, an array,
\* another value, or nothing it can parse.
JsonKind(text) ==
  IF \/ Len(text) = 0
     \/ Cardinality({k \in DOMAIN text : text[k] = Q}) % 2 # 0
     \/ Depth(text, Len(text)) # 0
     \/ \E i \in DOMAIN text : Depth(text, i) < 0
  THEN "invalid"
  ELSE IF text[1] = "{" THEN "object"
  ELSE IF text[1] = "[" THEN "array"
  ELSE "other"

\* ESPPhoenixSocket.h:147-153  the document could not be parsed
Malformed == [error |-> "JSON parse error"]

\* A JsonObject taken from a value that is not an object.
NullObject == <<"n", "u", "l", "l">>

\* ESPPhoenixSocket.h:144-158  deserializeJson and the fields the handler
\* takes from the document: topic, event and, as an object, payload.  The
\* ref of the frame is not read.
decodeChars(text) ==
  IF ~StartsWith(text, Piece1) THEN Malformed
  ELSE
    LET a == Drop(text, Len(Piece1))
        ti == IndexOfQuote(a)
    IN
    IF ti = 0 \/ ~StartsWith(Drop(a, ti - 1), Piece2) THEN Malformed
    ELSE
      LET b == Drop(a, ti - 1 + Len(Piece2))
          ei == IndexOfQuote(b)
      IN
      IF ei = 0 \/ ~StartsWith(Drop(b, ei - 1), Piece3) THEN Malformed
      ELSE
        LET c == Drop(b, ei - 1 + Len(Piece3))
            ri == IndexOfQuote(c)
        IN
        IF ri = 0 \/ ~StartsWith(Drop(c, ri - 1), Piece4) THEN Malformed
        ELSE
          LET d == Drop(c, ri - 1 + Len(Piece4)) IN
          IF Len(d) = 0 \/ d[Len(d)] # "}" THEN Malformed
          ELSE
            LET pl == SubSeq(d, 1, Len(d) - 1)
                kind == JsonKind(pl)
            IN
            IF kind = "invalid" THEN Malformed
            ELSE [error |-> "ok",
                  topic |-> SubSeq(a, 1, ti - 1),
                  event |-> SubSeq(b, 1, ei - 1),
                  payload |-> IF kind = "object" THEN pl ELSE NullObject]

\* The frames given to the codec.
CodecTopics == {<<"t">>, <<"d", "e", "v", ":", "1">>}
CodecEvents == {<<"e">>, <<"p", "h", "x">>}
CodecRefs == {1, 42, UMod - 1}
LongPayload ==
  <<"{", Q, "k", Q, ":", Q>> \o [i \in 1..LongLen |-> "x"] \o <<Q, "}">>
CodecPayloads ==
  { <<>>,
    <<"{", "}">>,
    <<"{", Q, "k", Q, ":", "1", "}">>,
    <<"[", "1", "]">>,
    LongPayload }

\* ESPPhoenixSocket.h:183-190  _sendJsonMessage: the frame is encoded into
\* the message buffer.
Encode ==
  /\ Len(codec.wire) = 0
  /\ codec' = [codec EXCEPT !.wire =
                 encodeMessageChars(MESSAGE_SIZE, codec.topic, codec.event,
                                    codec.ref, codec.payload)]
  /\ UNCHANGED <<sessionVars, clk, logger, http, sched>>

\* ESPPhoenixSocket.h:142-171  _handleIncomingMessage reads the text back.
Decode ==
  /\ Len(codec.wire) # 0
  /\ codec.out.error = "none"
  /\ codec' = [codec EXCEPT !.out = decodeChars(codec.wire)]
  /\ UNCHANGED <<sessionVars, clk, logger, http, sched>>

InitCodec ==
  /\ InitSession
  /\ clk = NoEstimate
  /\ logger = NewLogger(0, 0)
  /\ http = NoPost
  /\ sched = NoTick
  /\ codec \in {[topic |-> t, event |-> e, ref |-> r, payload |-> p,
                 wire |-> <<>>, out |-> [error |-> "none"]] :
                  t \in CodecTopics, e \in CodecEvents, r \in CodecRefs,
                  p \in CodecPayloads}

NextCodec == Encode \/ Decode

SpecCodec == InitCodec /\ [][NextCodec]_vars

-----------------------------------------------------------------------------
(* Vocabulary of the claims. *)

\* The frames the last step sent that are phx_join requests.
JoinsSent(box) == {i \in DOMAIN box : box[i].event = "phx_join"}

\* The afterJoin invocations among the callbacks of a step.
AfterJoinCalls(cs) == {i \in DOMAIN cs : cs[i].fn = "afterJoin"}

\* A reply on the device channel.
ChannelReply(f) == f.json /\ f.topic = CHANNEL /\ f.event = "phx_reply"

\* A join reply as the wire protocol defines a valid one: an integer
\* group_id and an array sensor_ids with one id per configured sensor.
ValidJoinReply(f) ==
  /\ ChannelReply(f)
  /\ f.response.group_id.t = "int"
  /\ f.response.sensor_ids.t = "arr"
  /\ Len(f.response.sensor_ids.a) = NumSensors

\* The replies on the device channel whose response.reason is "invalid
\* token".
InvalidTokenReplies ==
  {f \in FrameShapes : ChannelReply(f) /\ f.response.reason = InvalidToken}

\* The text frames that are not valid JSON.
MalformedFrames == {f \in FrameShapes : ~f.json}

\* A join request is outstanding and f answers it.
AnswersPendingJoin(f) == joinCredit = 1 /\ f.ref = _lastRef

\* The program's own state: everything but the observations of one step.
programVars == <<connected, _channelJoined, _joinString, _lastRef,
                 _afterJoinCallback, _ref_counter, _unix, _lastUnix,
                 lastJoin, lastSyncAttempt>>

-----------------------------------------------------------------------------
(* Join requests and join replies. *)

\* C1: two phx_join requests sent while the session stays unjoined are more
\* than REJOIN_INTERVAL milliseconds apart in real time, whatever the
\* millisecond counter read at the first of them.
C1_JoinsAreSpaced ==
  [][tick =>
       \A i \in JoinsSent(outbox') :
         lastJoinAt = -1 \/ clock - lastJoinAt > REJOIN_INTERVAL]_vars

\* C2: afterJoin is invoked only for an outstanding join request, at most
\* once for it, and only with an integer group_id and an array holding one
\* id per configured sensor.
C2_AfterJoinOnlyForValidReply ==
  [][/\ Cardinality(AfterJoinCalls(calls')) <= 1
     /\ \A i \in AfterJoinCalls(calls') :
          /\ joinCredit = 1
          /\ calls'[i].group_id.t = "int"
          /\ calls'[i].ids.t = "arr"
          /\ Len(calls'[i].ids.a) = NumSensors]_vars

\* C3: a reply on the device channel that answers the pending join and
\* carries group_id 7 and sensor_ids ["10", "11"] makes the session joined
\* and hands afterJoin the group id and the ids in that order.
C3_ValidReplyJoins ==
  [][\A f \in InFrames :
       (/\ WsText(f)
        /\ ~_channelJoined
        /\ _afterJoinCallback
        /\ AnswersPendingJoin(f)
        /\ ChannelReply(f)
        /\ f.response.reason = JAbsent
        /\ f.response.group_id = JInt(7)
        /\ f.response.sensor_ids = Ids2)
       => /\ _channelJoined'
          /\ \E i \in DOMAIN calls' :
               calls'[i] = CallAfterJoin(JInt(7), Ids2)]_vars

\* C4: every frame the client sends carries a ref greater than the ref of
\* every frame it sent before.
C4_RefsIncrease ==
  [][\A i \in DOMAIN outbox' :
       /\ outbox'[i].ref > maxRefSent
       /\ \A j \in 1..(i - 1) : outbox'[j].ref < outbox'[i].ref]_vars

\* C5: the session becomes joined, and afterJoin is invoked, only by a reply
\* whose ref is the ref recorded when the latest phx_join was sent.
C5_JoinedOnlyByReplyToLatestJoin ==
  [][\A f \in InFrames :
       (WsText(f) /\ (_channelJoined' # _channelJoined
                      \/ AfterJoinCalls(calls') # {}))
       => AnswersPendingJoin(f)]_vars

\* C6: a reply whose response.reason is "invalid token", received while the
\* channel is not joined, neither invokes afterJoin nor makes the channel
\* joined, whatever else the reply carries.
C6_InvalidTokenNeverJoins ==
  [][(connected /\ ~_channelJoined)
     => \A f \in InFramesOf(InvalidTokenReplies) :
          WsText(f) => (~_channelJoined' /\ AfterJoinCalls(calls') = {})]_vars

\* The pending join was just answered with "invalid token" while a callback
\* was set: the reply reached the handler and the channel is not joined.
C6_Witness ==
  /\ pc = "pump"
  /\ calls = <<Call("onReply", CHANNEL)>>
  /\ rejected
  /\ joinCredit = 1
  /\ _afterJoinCallback
  /\ connected
  /\ ~_channelJoined

\* C7: once the pending join has been answered with "invalid token", no
\* tick() sends a phx_join until the caller sets the credentials anew.
C7_RejectionIsTerminal ==
  [][(tick /\ rejected) => JoinsSent(outbox') = {}]_vars

-----------------------------------------------------------------------------
(* Malformed frames, reconnection, the clock estimate. *)

\* C8: an inbound text frame that is not valid JSON invokes the error
\* callback exactly once and no other callback, and leaves the joined flag,
\* the clock estimate, the ref counter, the join cooldown and every other
\* field of the session as they were.
C8_MalformedFrameOnlyReportsError ==
  [][\A f \in InFramesOf(MalformedFrames) :
       WsText(f)
       => /\ calls' = <<Call("onError", "JSON parse error")>>
          /\ outbox' = <<>>
          /\ UNCHANGED <<programVars, lastJoinAt, joinCredit, rejected,
                         synced, sentCount>>]_vars

\* A malformed frame was just reported while the session was joined and
\* held a clock estimate.
C8_Witness ==
  /\ pc = "pump"
  /\ calls = <<Call("onError", "JSON parse error")>>
  /\ _channelJoined
  /\ synced
  /\ _unix # 0

\* C9: a disconnect clears the joined flag and keeps the join payload; when
\* connected again, tick() sends a phx_join with that payload once the
\* cooldown has elapsed; and a valid reply to it makes the session joined
\* again with no action of the caller.
C9_RejoinsAfterReconnect ==
  [][/\ WsDisconnected => (~_channelJoined' /\ _joinString' = _joinString)
     /\ (/\ tick
         /\ lost /\ connected /\ ~_channelJoined
         /\ lastJoinAt # -1
         /\ clock - lastJoinAt > REJOIN_INTERVAL
         /\ clock - lastJoinAt < UMod)
        => \E i \in JoinsSent(outbox') :
             outbox'[i].payload = (IF _joinString = "" THEN "{}" ELSE _joinString)
     /\ \A f \in InFrames :
          (/\ WsText(f)
           /\ lost /\ ~_channelJoined /\ _afterJoinCallback
           /\ AnswersPendingJoin(f)
           /\ ValidJoinReply(f)
           /\ f.response.reason = JAbsent)
          => _channelJoined']_vars

\* C10: getUnix() returns 0 before the first clock-sync reply is processed
\* and a non-zero time after it, and from then on a getUnix() call after a
\* step returns no less than a getUnix() call before the step returned.
C10_UnixZeroThenNeverDecreases ==
  [][/\ ~synced' => getUnixResult' = 0
     /\ synced' => getUnixResult' # 0
     /\ synced =>
          LET kept == <<_unix', _lastUnix'>> = <<_unix, _lastUnix>>
              unix == IF kept THEN RebasedUnix.unix ELSE _unix'
              lastUnix == IF kept THEN RebasedUnix.lastUnix ELSE _lastUnix'
          IN UnixAt(unix, lastUnix, millis') >= getUnixResult]_vars

-----------------------------------------------------------------------------
(* Reading the clock, inbound frames that are not replies, the heartbeat. *)

\* The frames of box that ask the server for the time.
TimeRequests(box) == {i \in DOMAIN box : box[i].event = "time"}

\* C12 as stated: no call of getUnix(), in any state, sends a frame on the
\* transport or consumes a ref.
C12_GetUnixIsPure ==
  [][getUnix => (outbox' = <<>> /\ _ref_counter' = _ref_counter)]_vars

\* C12 amended: a call of getUnix() sends no frame and consumes no ref when
\* the stored estimate is non-zero or the channel is not joined; otherwise
\* it sends nothing, or exactly one frame, a "time" event on the channel
\* topic that takes the next ref.
C12_GetUnixSendsAtMostOneTimeRequest ==
  [][getUnix
     => \/ outbox' = <<>> /\ _ref_counter' = _ref_counter
        \/ /\ _unix = 0
           /\ _channelJoined
           /\ Len(outbox') = 1
           /\ outbox'[1].topic = CHANNEL
           /\ outbox'[1].event = "time"
           /\ outbox'[1].ref = (_ref_counter + 1) % UMod
           /\ _ref_counter' = outbox'[1].ref]_vars

\* getUnix() has just asked for the time: the channel is joined and there
\* is no estimate.
C12_Witness ==
  /\ pc = "idle"
  /\ Len(outbox) = 1
  /\ TimeRequests(outbox) = {1}
  /\ _channelJoined
  /\ _unix = 0
  /\ lastSyncAt = clock

\* The valid JSON frames that lack the topic or the event field.
MissingFieldFrames ==
  {f \in FrameShapes : f.json /\ (f.topic = NoField \/ f.event = NoField)}

\* The callbacks of a step that hand a frame to the layer above the socket.
Forwarded(cs) == {i \in DOMAIN cs : cs[i].fn \in {"onMessage", "onReply"}}

MessageFrames ==
  {f \in FrameShapes : f.json /\ f.topic # NoField /\ f.event # NoField
                                /\ f.event # "phx_reply"}

\* The valid JSON frames that carry an event other than phx_reply, with a
\* topic or without.
NonReplyFrames ==
  {f \in FrameShapes : f.json /\ f.event # NoField /\ f.event # "phx_reply"}

\* What C15 says of a step that receives f: the message callback gets it,
\* and the joined flag, the clock estimate and the pending join stay.
DeliveredAsMessage(f) ==
  /\ calls' = <<Call("onMessage", f.topic)>>
  /\ UNCHANGED <<_channelJoined, _unix, _lastUnix, _lastRef, lastJoin,
                 joinCredit, rejected, synced>>

Heartbeats(box) ==
  {i \in DOMAIN box : box[i].topic = "phoenix" /\ box[i].event = "heartbeat"
                                                /\ box[i].payload = "{}"}

\* The heartbeat period that holds the physical time t, counted from boot.
PeriodOf(t) == t \div HEARTBEAT_PERIOD

\* C16: while tick() is called, exactly one heartbeat is sent per period of
\* HEARTBEAT_PERIOD milliseconds, whatever the times at which tick() runs:
\* a tick sends one heartbeat when none was sent yet in the period the
\* clock is in, and none when the period has had its heartbeat.
C16_OneHeartbeatPerPeriod ==
  [][tick
     => IF PeriodOf(clock) > PeriodOf(lastBeatAt)
        THEN Cardinality(Heartbeats(outbox')) = 1
        ELSE Heartbeats(outbox') = {}]_vars

-----------------------------------------------------------------------------
(* Time requests and the replies that set the clock estimate. *)

\* C19: a time request is sent only while the channel is joined and no
\* clock-sync reply has been processed, one at a time, and more than
\* SYNC_INTERVAL milliseconds of real time after the previous time request,
\* whatever the millisecond counter read at that request.
C19_TimeRequestsAreThrottled ==
  [][TimeRequests(outbox') # {}
     => /\ _channelJoined
        /\ ~synced
        /\ Cardinality(TimeRequests(outbox')) = 1
        /\ (lastSyncAt = -1 \/ clock - lastSyncAt > SYNC_INTERVAL)]_vars

\* The replies on the device channel that carry an integer
\* response.timestamp.
TimeReplies ==
  {f \in FrameShapes : ChannelReply(f) /\ f.response.timestamp.t = "int"}

\* f answers a request of this connection other than the join request.
AnswersNonJoinRequest(f) == f.ref \in RefsOnConnection /\ f.ref # _lastRef

\* C20: the clock estimate is changed only by a phx_reply on the channel
\* topic, received while joined, that answers a request other than the
\* join and carries an integer response.timestamp, and such a reply leaves
\* the channel joined.  (getUnix() may move the anchor of the estimate; it
\* does not change the time the estimate denotes.)
C20_EstimateSetOnlyByTimeReply ==
  [][(<<_unix, _lastUnix>>' # <<_unix, _lastUnix>> /\ ~getUnix)
     => /\ _channelJoined
        /\ _channelJoined'
        /\ \E f \in InFramesOf(TimeReplies) :
             WsText(f) /\ AnswersNonJoinRequest(f)]_vars

-----------------------------------------------------------------------------
(* The value of the clock estimate over time (SpecClock). *)

\* The time the estimate denotes at the last reading: the timestamp of the
\* reply plus the whole seconds since the reply was processed.
ExpectedUnix == clk.ts + (clk.last - clk.at) \div 1000

\* C11 as stated: after a clock-sync reply with timestamp ts processed at
\* time T, getUnix() at T+d returns ts + floor(d/1000), through re-basing and
\* through the wrap of millis(), provided two successive readings are less
\* than one turn of the millisecond counter apart.
C11_UnixFollowsTime ==
  (clk.ret # -1 /\ clk.gap < UMod) => clk.ret = ExpectedUnix

\* C11 amended: the same, provided two successive readings (and the reply
\* and the first reading) are at most one turn of the millisecond counter
\* less one day and one millisecond apart.
C11_UnixFollowsTimeWithinSafeGap ==
  (clk.ret # -1 /\ clk.ts >= 1 /\ clk.gap <= SafeGap) => clk.ret = ExpectedUnix

\* A reading returned the right time after the anchor was re-based with a
\* remainder of milliseconds and the millisecond counter had wrapped.
C11_Witness ==
  /\ clk.ret = ExpectedUnix
  /\ clk.ret # -1
  /\ clk.gap <= SafeGap
  /\ clk.gap > ONE_DAY
  /\ clk.last >= UMod
  /\ clk.at < UMod
  /\ (clk.last - clk.at) % 1000 # 0
  /\ _unix # clk.ts

-----------------------------------------------------------------------------
(* The HTTP variant (SpecLogger). *)

\* C13: for every unsigned v, setSensorReadInterval(v) stores
\* min(max(v, 10), 1800): 10 for every v below 10, 1800 for every v above
\* 1800 up to the largest unsigned value, v itself in between.
C13_SensorIntervalIsClamped ==
  [][\A v \in IntervalInputs :
       setSensorReadInterval(v)
       => logger'._sensorReadInterval
            = (IF v < 10 THEN 10 ELSE IF v > 1800 THEN 1800 ELSE v)]_vars

\* The POSTs of the last _sendData call that were answered 201, among the
\* first four.
Created == {i \in 1..(1 + 3) : i <= Len(http.codes) /\ http.codes[i] = 201}

\* C18: every _sendData call returns; it makes at most one POST and three
\* retries; it returns true at the first 201 and false when the first POST
\* and the three retries all failed; and it leaves the retry counter at 0.
C18_SendDataRetriesAreBounded ==
  http.ret # "none"
  => /\ http.ret \in {"true", "false"}
     /\ http.posts <= 1 + 3
     /\ logger.retries = 0
     /\ IF Created # {}
        THEN /\ http.ret = "true"
             /\ http.posts \in Created
             /\ \A i \in Created : http.posts <= i
        ELSE http.ret = "false" /\ http.posts = 1 + 3

\* An upload has just failed for good: four POSTs, none answered 201.
C18_Witness ==
  /\ http.ret = "false"
  /\ http.posts = 4
  /\ Created = {}
  /\ logger.retries = 0

-----------------------------------------------------------------------------
(* The round trip of a frame (SpecCodec). *)

\* C17: decoding an encoded frame yields the topic, the event, the ref and
\* the payload that were encoded, an empty payload being encoded as {}.
C17_RoundTrip ==
  codec.out.error # "none"
  => /\ codec.out.error = "ok"
     /\ codec.out.topic = codec.topic
     /\ codec.out.event = codec.event
     /\ "ref" \in DOMAIN codec.out
     /\ codec.out.ref = codec.ref
     /\ codec.out.payload
          = (IF Len(codec.payload) = 0 THEN <<"{", "}">> ELSE codec.payload)

-----------------------------------------------------------------------------
(* Join replies that are refused. *)

\* The replies on the device channel that are no rejection and lack an
\* integer group_id or the array sensor_ids of the wire protocol.
InvalidJoinReplies ==
  {f \in FrameShapes :
     /\ ChannelReply(f)
     /\ f.response.reason # InvalidToken
     /\ (f.response.group_id.t # "int" \/ f.response.sensor_ids.t # "arr")}

\* C21: a reply to the pending join that is no invalid-token rejection and
\* lacks an integer group_id or the sensor-id array leaves the channel
\* unjoined and invokes no afterJoin, and while the join stays unanswered
\* tick() sends the next phx_join only more than REJOIN_INTERVAL
\* milliseconds after the previous one.
C21_RefusedReplyKeepsUnjoined ==
  [][/\ (connected /\ ~_channelJoined)
        => \A f \in InFramesOf(InvalidJoinReplies) :
             (WsText(f) /\ AnswersPendingJoin(f))
             => (~_channelJoined' /\ AfterJoinCalls(calls') = {})
     /\ (tick /\ joinCredit = 1)
        => \A i \in JoinsSent(outbox') :
             clock - lastJoinAt > REJOIN_INTERVAL]_vars

-----------------------------------------------------------------------------
(* tick() called from the afterJoin callback; a session without callback. *)

\* The replies on the device channel that pass the schema test of the
\* client.
AcceptedJoinReplies ==
  {f \in FrameShapes :
     ChannelReply(f) /\ ~IsInvalidToken(f.response)
                     /\ ~JoinReplyRefused(f.response)}

\* C24: a tick() called from the afterJoin callback, while the join reply is
\* being processed, sends no frame and leaves the join cooldown, the
\* recorded join ref and the ref counter as they were.
C24_ReentrantTickIsGuarded ==
  [][connected
     => \A f \in InFramesOf(AcceptedJoinReplies) :
          tickInAfterJoin(f)
          => /\ outbox' = <<>>
             /\ UNCHANGED <<lastJoin, _lastRef, _ref_counter, lastJoinAt>>]_vars

\* C25: while no afterJoin callback is registered the session is never
\* joined, whatever replies arrive, and a tick() of the connected session
\* sends a phx_join when none was sent yet or the last one is more than
\* REJOIN_INTERVAL milliseconds old, and none otherwise.
C25_NoCallbackNeverJoins ==
  [][/\ ~_afterJoinCallback' => ~_channelJoined'
     /\ (tick /\ connected /\ ~_afterJoinCallback)
        => (JoinsSent(outbox') # {}
            <=> (lastJoinAt = -1 \/ clock - lastJoinAt > REJOIN_INTERVAL))]_vars

-----------------------------------------------------------------------------
(* The cadence of the sensor batches and of the log attempts (SpecSched). *)

\* A tick() of the ESPLogger, whatever its batch takes and the server
\* answers.
ESPTick ==
  \E dur \in BatchDurations, codes \in UploadOutcomes, sync \in SyncOutcomes :
    ESPLogger_tick(dur, codes, sync)

\* The poll interval is one the setter stores.
PollIntervalSet ==
  /\ logger._sensorReadInterval >= MIN_SENSOR_INTERVAL
  /\ logger._sensorReadInterval <= MAX_SENSOR_INTERVAL

\* C22 as stated: the first tick() after the logger is transmitting with a
\* clock estimate just obtained executes a sensor batch, whatever time has
\* passed since the estimate was obtained.
C22_FirstTickRunsBatch ==
  [][(ESPTick /\ logger._transmitting /\ sched.fresh)
     => sched'.batch = 1]_vars

\* C22 amended: the first tick() after the logger is transmitting with a
\* clock estimate just obtained executes no sensor batch unless more than
\* the poll interval has passed, in whole seconds, since the estimate was
\* obtained: the first batch waits for a poll interval.
C22_FirstBatchWaitsForInterval ==
  [][(ESPTick /\ logger._transmitting /\ sched.fresh)
     => (sched'.batch = 1
         => (clock - sched.syncAt) \div 1000 > logger._sensorReadInterval)]_vars

\* The first tick() after the estimate was obtained has just run, at the
\* time of the estimate, and executed no batch.
C22_Witness ==
  /\ logger._transmitting
  /\ logger._unix # 0
  /\ sched.syncAt = clock
  /\ ~sched.fresh
  /\ sched.batch = 0
  /\ sched.batches = 0

\* C23 as stated: after a sensor batch, a tick() executes the next batch
\* when the time since the completion of the previous batch is at least
\* the poll interval and not otherwise, and no tick() executes more than
\* one batch.
C23_NextBatchAtInterval ==
  [][(ESPTick /\ logger._transmitting /\ PollIntervalSet
        /\ sched.doneAt # -1 /\ ~sched.moved)
     => /\ sched'.batch <= 1
        /\ sched'.batch = 1
           <=> clock - sched.doneAt >= logger._sensorReadInterval * 1000]_vars

\* C23 amended: after a sensor batch, no tick() executes the next batch
\* before more than the poll interval less five seconds has passed since
\* the completion of the previous batch; the first tick() at which the
\* poll interval and one second have passed executes it, unless the
\* estimate was obtained anew in between; and no tick() executes more than
\* one batch.
C23_NextBatchWithinOffset ==
  [][(ESPTick /\ logger._transmitting /\ PollIntervalSet
        /\ sched.doneAt # -1)
     => /\ sched'.batch <= 1
        /\ sched'.batch = 1
           => clock - sched.doneAt > (logger._sensorReadInterval - 5) * 1000
        /\ (~sched.moved /\ clock - sched.doneAt
                             >= (logger._sensorReadInterval + 1) * 1000)
           => sched'.batch = 1]_vars

\* A tick() has just executed a batch sooner after the previous one than the
\* poll interval: the previous batch was late.
C23_Witness ==
  /\ sched.batch = 1
  /\ sched.gap # -1
  /\ sched.gap < logger._sensorReadInterval * 1000
  /\ sched.batches >= 3
  /\ ~sched.moved

\* C26: a tick() that makes a log attempt leaves the buffer of every sensor
\* empty, whether the upload succeeded or failed after its retries; the
\* payload of the attempt holds no reading an earlier attempt held; the
\* attempt comes more than the log interval after the previous one; and no
\* buffer ever holds a reading that was in a payload.
C26_ReadingsLoggedAtMostOnce ==
  [][/\ BatchesIn(logger'.values) \cap (sched'.sent \cup sched'.payload) = {}
     /\ (ESPTick /\ sched'.log # "none")
        => /\ sched'.log \in {"true", "false"}
           /\ \A i \in 1..NumSensors : logger'.values[i] = <<>>
           /\ sched'.payload \cap sched'.sent = {}
           /\ sched.logAt # -1
              => clock' - sched.logAt > logger._logInterval * 1000]_vars

\* A log attempt has just failed after its retries; its payload held the
\* readings of a batch, an earlier attempt held others, and the buffers
\* are empty.
C26_Witness ==
  /\ sched.log = "false"
  /\ http.ret = "false"
  /\ http.posts = 4
  /\ sched.payload # {}
  /\ sched.sent # {}
  /\ \A i \in 1..NumSensors : logger.values[i] = <<>>

====
